---- MODULE Spec2Model ----
(***************************************************************************)
(* Model of imagenet-classification/create_cache.py: the geometric part of *)
(* _resize_image (crop / pad arithmetic carried out in IEEE double         *)
(* precision, as the Python code does) and the run of main(): archive      *)
(* classification, devkit reading, the train and validation index          *)
(* builders, the hand-off to the cache store and the exit paths.           *)
(***************************************************************************)
EXTENDS Integers, Sequences, FiniteSets, TLC

\* ---------------------------------------------------------------- bounds
MaxImageSize == 30
MaxMembers == 3
MaxInputs == 2
MaxInner == 2
MaxGroundTruth == 3
MaxThinning == 2

\* target sizes tried by the image-normalizer specification
TargetSizes == {1, 2, 3, 11, 15}
ImageSizes == 1..MaxImageSize

\* ------------------------------------------------- IEEE double arithmetic
\* A positive double is 2^e * (1 + l1/B + l2/B^2 + l3/B^3) with B = 2^18 and
\* l3 a multiple of 4: 52 fraction bits in three limbs.
LimbBase == 262144
LimbBits == 18

Range(s) == {s[i] : i \in DOMAIN s}

\* round-to-nearest-even of 54 fraction bits plus a sticky flag to 52 bits
FRound(e, l1, l2, l3, sticky) ==
    LET low == l3 % 4
        kept == l3 - low
        up == low >= 2 /\ (low = 3 \/ sticky \/ (kept \div 4) % 2 = 1)
        s3 == IF up THEN kept + 4 ELSE kept
        s2 == l2 + s3 \div LimbBase
        s1 == l1 + s2 \div LimbBase
    IN IF s1 >= LimbBase
       THEN [e |-> e + 1, l1 |-> 0, l2 |-> 0, l3 |-> 0]
       ELSE [e |-> e, l1 |-> s1, l2 |-> s2 % LimbBase, l3 |-> s3 % LimbBase]

\* float(a) / b for positive integers a, b below 2^12
FDiv(a, b) ==
    LET e == CHOOSE k \in -12..12 :
                 IF k >= 0 THEN b * 2^k <= a /\ a < b * 2^(k + 1)
                           ELSE b <= a * 2^(-k) /\ a * 2^(-k) < 2 * b
        n == IF e >= 0 THEN a ELSE a * 2^(-e)
        d == IF e >= 0 THEN b * 2^e ELSE b
        r0 == n - d
        r1 == (r0 * LimbBase) % d
        r2 == (r1 * LimbBase) % d
        r3 == (r2 * LimbBase) % d
    IN FRound(e, (r0 * LimbBase) \div d, (r1 * LimbBase) \div d,
              (r2 * LimbBase) \div d, r3 # 0)

\* x * c for a double x and a positive integer c below 2^12
FMul(x, c) ==
    LET t3 == x.l3 * c
        t2 == x.l2 * c + t3 \div LimbBase
        t1 == x.l1 * c + t2 \div LimbBase
        t0 == c + t1 \div LimbBase
        d1 == t1 % LimbBase
        d2 == t2 % LimbBase
        d3 == t3 % LimbBase
        s == CHOOSE k \in 0..12 : 2^k <= t0 /\ t0 < 2^(k + 1)
        p == 2^s
    IN FRound(x.e + s,
              ((t0 % p) * LimbBase + d1) \div p,
              ((d1 % p) * LimbBase + d2) \div p,
              ((d2 % p) * LimbBase + d3) \div p,
              d3 % p # 0)

\* int(x): truncation of a positive double below 2^18
FInt(x) == IF x.e < 0 THEN 0 ELSE 2^x.e + x.l1 \div 2^(LimbBits - x.e)

\* x < y on doubles
FLess(x, y) ==
    \/ x.e < y.e
    \/ x.e = y.e /\ x.l1 < y.l1
    \/ x.e = y.e /\ x.l1 = y.l1 /\ x.l2 < y.l2
    \/ x.e = y.e /\ x.l1 = y.l1 /\ x.l2 = y.l2 /\ x.l3 < y.l3

\* ------------------------------------------------------------ _resize_image
\* im[start:stop] on an axis of length n: the kept index range
PySlice(start, stop, n) ==
    LET norm(i) == IF i < 0 THEN (IF i + n < 0 THEN 0 ELSE i + n)
                   ELSE (IF i > n THEN n ELSE i)
        lo == norm(start)
        hi == norm(stop)
    IN [start |-> lo, stop |-> IF hi < lo THEN lo ELSE hi]

NoPad == <<0, 0>>

\* The grid handed to imresize: which rows and columns of the input are kept,
\* how many zero rows / columns np.pad adds on each side, and whether np.pad
\* raised (it rejects a negative pad width).
resize_image(h, w, width, height, padding) ==
    IF w # width \/ h # height
    THEN IF ~padding
         THEN IF FLess(FDiv(height, width), FDiv(h, w))
              THEN LET target_h == FInt(FMul(FDiv(w, width), height))
                   IN [branch |-> "trim_rows", target |-> target_h,
                       rows |-> PySlice((h - target_h) \div 2,
                                        h - (h - target_h) \div 2, h),
                       cols |-> PySlice(0, w, w),
                       pad |-> <<NoPad, NoPad, NoPad>>, raised |-> FALSE]
              ELSE LET target_w == FInt(FMul(FDiv(h, height), width))
                   IN [branch |-> "trim_cols", target |-> target_w,
                       rows |-> PySlice(0, h, h),
                       cols |-> PySlice((w - target_w) \div 2,
                                        w - (w - target_w) \div 2, w),
                       pad |-> <<NoPad, NoPad, NoPad>>, raised |-> FALSE]
         ELSE IF FLess(FDiv(h, w), FDiv(height, width))
              THEN LET target_h == FInt(FMul(FDiv(height, width), w))
                       top == (target_h - h) \div 2
                       bottom == target_h - (target_h - h) \div 2 - h
                   IN [branch |-> "pad_rows", target |-> target_h,
                       rows |-> PySlice(0, h, h), cols |-> PySlice(0, w, w),
                       pad |-> <<<<top, bottom>>, NoPad>> \o <<NoPad>>,
                       raised |-> top < 0 \/ bottom < 0]
              ELSE LET target_w == FInt(FMul(FDiv(width, height), h))
                       left == (target_w - w) \div 2
                       right == target_w - (target_w - w) \div 2 - w
                   IN [branch |-> "pad_cols", target |-> target_w,
                       rows |-> PySlice(0, h, h), cols |-> PySlice(0, w, w),
                       pad |-> <<NoPad, <<left, right>>>> \o <<NoPad>>,
                       raised |-> left < 0 \/ right < 0]
    ELSE [branch |-> "same", target |-> 0,
          rows |-> PySlice(0, h, h), cols |-> PySlice(0, w, w),
          pad |-> <<NoPad, NoPad, NoPad>>, raised |-> FALSE]

NotResized ==
    [branch |-> "none", target |-> 0, rows |-> [start |-> 0, stop |-> 0],
     cols |-> [start |-> 0, stop |-> 0], pad |-> <<NoPad, NoPad, NoPad>>,
     raised |-> FALSE]

\* ------------------------------------------------------- names and patterns
TrainMemberNames == {"n00000001.tar", "n00000002.tar"}
ValMemberNames ==
    {"ILSVRC2012_val_00000001.JPEG", "ILSVRC2012_val_00000002.JPEG",
     "ILSVRC2012_val_00000003.JPEG"}
OtherMemberNames == {"README.txt"}
MemberNames == TrainMemberNames \cup ValMemberNames \cup OtherMemberNames

\* re.match(r'n[0-9]{8}\.tar', name)
MatchCategoryArchive(name) == name \in TrainMemberNames

\* re.match(r'ILSVRC2012_val_[0-9]{8}\.JPEG', name)
MatchValidationImage(name) == name \in ValMemberNames

\* os.path.splitext(name)[0]
splitext0(name) ==
    CASE name = "n00000001.tar" -> "n00000001"
      [] name = "n00000002.tar" -> "n00000002"
      [] name = "README.txt" -> "README"
      [] name = "ILSVRC2012_val_00000001.JPEG" -> "ILSVRC2012_val_00000001"
      [] name = "ILSVRC2012_val_00000002.JPEG" -> "ILSVRC2012_val_00000002"
      [] name = "ILSVRC2012_val_00000003.JPEG" -> "ILSVRC2012_val_00000003"

InnerNames ==
    {"n00000001_1.JPEG", "n00000001_2.JPEG", "n00000002_1.JPEG", "wrong_1.JPEG"}

\* re.match(r'{}_[0-9]+\.JPEG'.format(category), mname)
MatchInner(category, mname) ==
    \/ category = "n00000001" /\ mname \in {"n00000001_1.JPEG", "n00000001_2.JPEG"}
    \/ category = "n00000002" /\ mname = "n00000002_1.JPEG"

\* byte-wise order of the member names, as sorted() compares str values
ByteRank(name) ==
    CASE name = "ILSVRC2012_val_00000001.JPEG" -> 1
      [] name = "ILSVRC2012_val_00000002.JPEG" -> 2
      [] name = "ILSVRC2012_val_00000003.JPEG" -> 3
      [] name = "README.txt" -> 4
      [] name = "n00000001.tar" -> 5
      [] name = "n00000002.tar" -> 6

\* sorted(names), for a listing of distinct names
sorted(seq) ==
    [i \in 1..Len(seq) |->
        CHOOSE nm \in Range(seq) :
            Cardinality({o \in Range(seq) : ByteRank(o) < ByteRank(nm)}) = i - 1]

\* meta['synsets'] of the devkit: (ILSVRC2012_ID, WNID) rows
DevkitSynsets ==
    << [sid |-> 2, sname |-> "n00000001"], [sid |-> 1, sname |-> "n00000002"] >>
NumSynsets == Len(DevkitSynsets)

\* the loop filling synsets_id[sname] = sid; a later row overwrites an earlier
load_synsets_id(meta) ==
    [c \in {meta[i].sname : i \in 1..Len(meta)} |->
        LET last == CHOOSE i \in 1..Len(meta) :
                        /\ meta[i].sname = c
                        /\ \A j \in 1..Len(meta) : meta[j].sname = c => j <= i
        IN meta[last].sid]

\* the ground-truth files the devkit may hold: one id per line, the ids
\* cycling through the synsets from either start, any length up to the bound
GroundTruthFiles ==
    {[i \in 1..n |-> ((i + o) % NumSynsets) + 1] :
        n \in 0..MaxGroundTruth, o \in 0..(NumSynsets - 1)}

\* ------------------------------------------------------------ Python values
PyNone == [py |-> "NoneType", val |-> "None"]
PyStr(v) == [py |-> "str", val |-> v]
PyBool(b) == [py |-> "bool", val |-> IF b THEN "True" ELSE "False"]

\* truth value of an object where a callee tests `if shuffle:`
Truthy(v) ==
    CASE v.py = "NoneType" -> FALSE
      [] v.py = "bool" -> v.val = "True"
      [] v.py = "str" -> v.val # ""

\* argparse defaults of --width, --height and --mode
DefaultWidth == 320
DefaultHeight == 320
DefaultMode == "trimming"

\* ------------------------------------------------------------------- state
VARIABLES
    args,                     \* parsed command line
    pc,                       \* position of main()
    status,                   \* running, or how the process ended
    names,                    \* main: names of the archive being checked
    is_train,                 \* main: flag of the archive being checked
    is_val,                   \* main: flag of the archive being checked
    listings,                 \* environment: listings of the non-empty archives
                              \* checked so far and of the one being checked
    archives,                 \* main: archives['train'], archives['val']
    synsets_id,               \* main: category name -> id, once loaded
    validation_ground_truth,  \* main: ground-truth ids
    tmpdir,                   \* the temporary directory exists
    outdir,                   \* paths this run created under args.output
    catIdx,                   \* _create_train_cache: position in names
    inner,                    \* environment: inner listings read so far
    images0,                  \* index builder: pre-thin sequence
    images,                   \* index builder: thinned sequence
    built,                    \* roles whose index has been built
    handoffs,                 \* constructor calls made to the data sources
    loads,                    \* loader invocations made so far
    im_h,                     \* _resize_image: input height
    im_w,                     \* _resize_image: input width
    resized                   \* _resize_image: grid handed to imresize

vars ==
    <<args, pc, status, names, is_train, is_val, listings, archives,
      synsets_id, validation_ground_truth, tmpdir, outdir, catIdx, inner,
      images0, images, built, handoffs, loads, im_h, im_w, resized>>

resizeVars == <<im_h, im_w, resized>>

NoArchive == [present |-> FALSE, names |-> <<>>]

\* ------------------------------------------------ main: archive analysis
\* classify_member without the is_val test of the first branch: a category
\* archive listed after a validation image is accepted
classify_member_noMixCheck(st, name) ==
    IF MatchCategoryArchive(name)
    THEN [abort |-> FALSE, is_train |-> TRUE, is_val |-> st.is_val,
          names |-> Append(st.names, name)]
    ELSE IF MatchValidationImage(name)
         THEN IF st.is_train
              THEN [abort |-> TRUE, is_train |-> st.is_train, is_val |-> st.is_val,
                    names |-> st.names]
              ELSE [abort |-> FALSE, is_train |-> st.is_train, is_val |-> TRUE,
                    names |-> Append(st.names, name)]
         ELSE [abort |-> TRUE, is_train |-> st.is_train, is_val |-> st.is_val,
               names |-> st.names]

\* one pass of the loop over archive.getnames()
classify_member(st, name) ==
    IF MatchCategoryArchive(name)
    THEN IF st.is_val
         THEN [abort |-> TRUE, is_train |-> st.is_train, is_val |-> st.is_val,
               names |-> st.names]
         ELSE [abort |-> FALSE, is_train |-> TRUE, is_val |-> st.is_val,
               names |-> Append(st.names, name)]
    ELSE IF MatchValidationImage(name)
         THEN IF st.is_train
              THEN [abort |-> TRUE, is_train |-> st.is_train, is_val |-> st.is_val,
                    names |-> st.names]
              ELSE [abort |-> FALSE, is_train |-> st.is_train, is_val |-> TRUE,
                    names |-> Append(st.names, name)]
         ELSE [abort |-> TRUE, is_train |-> st.is_train, is_val |-> st.is_val,
               names |-> st.names]

\* the two `if` statements after the member loop
register_archive(arch, st) ==
    LET afterTrain ==
            IF st.is_train
            THEN IF ~arch.train.present
                 THEN [abort |-> FALSE,
                       archives |-> [arch EXCEPT !.train =
                                        [present |-> TRUE, names |-> st.names]]]
                 ELSE [abort |-> TRUE, archives |-> arch]
            ELSE [abort |-> FALSE, archives |-> arch]
    IN IF afterTrain.abort THEN afterTrain
       ELSE IF st.is_val
            THEN IF ~afterTrain.archives.val.present
                 THEN [abort |-> FALSE,
                       archives |-> [afterTrain.archives EXCEPT !.val =
                                        [present |-> TRUE, names |-> st.names]]]
                 ELSE [abort |-> TRUE, archives |-> afterTrain.archives]
            ELSE afterTrain

\* ------------------------------------------------------------ index builders
\* for i, image in enumerate(images0): if i % thinning == 0: images.append(image)
RECURSIVE ThinFrom(_, _, _)
ThinFrom(seq, k, i) ==
    IF i >= Len(seq) THEN <<>>
    ELSE (IF i % k = 0 THEN <<seq[i + 1]>> ELSE <<>>) \o ThinFrom(seq, k, i + 1)

\* thinning that keeps the first ceil(n/k) entries instead of every k-th
Thinning_prefix(seq, k) == SubSeq(seq, 1, (Len(seq) + k - 1) \div k)

\* the thinning loop of both builders
Thinning(seq, k) == ThinFrom(seq, k, 0)

\* _create_train_cache._load_func
load_func_train(imgs, index, a) ==
    LET entry == imgs[index + 1]
    IN [raised |-> FALSE,
        x |-> [src |-> <<entry.name, entry.mname>>, width |-> a.width,
               height |-> a.height, padding |-> a.mode = "padding"],
        y |-> entry.y - 1]

\* _create_validation_cache._load_func
load_func_val(ground_truth, imgs, index, a) ==
    IF index >= Len(ground_truth)
    THEN [raised |-> TRUE, x |-> [src |-> <<>>, width |-> a.width,
                                  height |-> a.height, padding |-> a.mode = "padding"],
          y |-> 0]
    ELSE [raised |-> FALSE,
          x |-> [src |-> <<imgs[index + 1]>>, width |-> a.width,
                 height |-> a.height, padding |-> a.mode = "padding"],
          y |-> ground_truth[index + 1] - 1]

\* shuffle as computed in _create_train_cache
train_shuffle(a) == IF a.shuffle = PyStr("False") THEN PyBool(FALSE) ELSE PyBool(TRUE)

\* shuffle as computed in _create_validation_cache
val_shuffle(a) == IF a.shuffle = PyStr("True") THEN PyBool(TRUE) ELSE PyBool(FALSE)

\* the two constructor calls closing each builder
store_calls(role, size, shuffle, a) ==
    << [role |-> role, callee |-> "SimpleDataSource", size |-> size,
        shuffle |-> shuffle],
       [role |-> role, callee |-> "DataSourceWithFileCache", size |-> size,
        shuffle |-> a.shuffle] >>

\* ---------------------------------------------------------------- main()
ShuffleChoices == {PyNone, PyStr("True"), PyStr("False")}
Modes == {"trimming", "padding"}

\* positions of main() inside the try statement
TryPcs == {"train", "train_count", "train_cache", "val", "val_cache"}

Init ==
    /\ args \in [thinning : 1..MaxThinning, shuffle : ShuffleChoices,
                 mode : {DefaultMode}, width : {DefaultWidth},
                 height : {DefaultHeight}]
    /\ pc = "classify"
    /\ status = "running"
    /\ names = <<>>
    /\ is_train = FALSE
    /\ is_val = FALSE
    /\ listings = << <<>> >>
    /\ archives = [train |-> NoArchive, val |-> NoArchive]
    /\ synsets_id = <<>>
    /\ validation_ground_truth = <<>>
    /\ tmpdir = FALSE
    /\ outdir = {}
    /\ catIdx = 0
    /\ inner = <<>>
    /\ images0 = <<>>
    /\ images = <<>>
    /\ built = {}
    /\ handoffs = <<>>
    /\ loads = <<>>
    /\ im_h = 0
    /\ im_w = 0
    /\ resized = NotResized

\* one member name of the archive being checked
ClassifyMember ==
    /\ status = "running" /\ pc = "classify"
    /\ Len(names) < MaxMembers
    /\ \E name \in MemberNames \ Range(listings[Len(listings)]) :
         LET st == classify_member(
                       [is_train |-> is_train, is_val |-> is_val, names |-> names],
                       name)
         IN /\ listings' = [listings EXCEPT ![Len(listings)] = Append(@, name)]
            /\ names' = st.names
            /\ is_train' = st.is_train
            /\ is_val' = st.is_val
            /\ status' = IF st.abort THEN "exit" ELSE "running"
    /\ UNCHANGED <<args, pc, archives, synsets_id, validation_ground_truth,
                   tmpdir, outdir, catIdx, inner, images0, images, built,
                   handoffs, loads, resizeVars>>

\* end of one archive's listing, another input argument follows (an archive
\* without members leaves no trace: its slot in listings is reused)
ClassifyNextArchive ==
    /\ status = "running" /\ pc = "classify"
    /\ names # <<>> => Len(listings) < MaxInputs
    /\ LET reg == register_archive(
                      archives,
                      [is_train |-> is_train, is_val |-> is_val, names |-> names])
       IN /\ archives' = reg.archives
          /\ IF reg.abort
             THEN /\ status' = "exit"
                  /\ UNCHANGED <<listings, names, is_train, is_val>>
             ELSE /\ status' = "running"
                  /\ listings' = IF names = <<>> THEN listings
                                  ELSE Append(listings, <<>>)
                  /\ names' = <<>>
                  /\ is_train' = FALSE
                  /\ is_val' = FALSE
    /\ UNCHANGED <<args, pc, synsets_id, validation_ground_truth,
                   tmpdir, outdir, catIdx, inner, images0, images, built,
                   handoffs, loads, resizeVars>>

\* end of the last archive's listing (an archive without members leaves no
\* trace in listings)
ClassifyLastArchive ==
    /\ status = "running" /\ pc = "classify"
    /\ LET reg == register_archive(
                      archives,
                      [is_train |-> is_train, is_val |-> is_val, names |-> names])
       IN /\ archives' = reg.archives
          /\ status' = IF reg.abort THEN "exit" ELSE "running"
          /\ pc' = IF reg.abort THEN "classify" ELSE "devkit"
    /\ listings' = IF names = <<>> THEN SubSeq(listings, 1, Len(listings) - 1)
                    ELSE listings
    /\ UNCHANGED <<args, names, is_train, is_val, synsets_id,
                   validation_ground_truth, tmpdir, outdir, catIdx, inner,
                   images0, images, built, handoffs, loads, resizeVars>>

\* meta.mat and the ground-truth text of the devkit
ReadDevkit ==
    /\ status = "running" /\ pc = "devkit"
    /\ synsets_id' = load_synsets_id(DevkitSynsets)
    /\ \E gt \in GroundTruthFiles : validation_ground_truth' = gt
    /\ pc' = "logging"
    /\ UNCHANGED <<args, status, names, is_train, is_val, listings, archives,
                   tmpdir, outdir, catIdx, inner, images0, images, built,
                   handoffs, loads, resizeVars>>

\* tempfile.mkdtemp() and the nnabla.conf written into it
PrepareLogging ==
    /\ status = "running" /\ pc = "logging"
    /\ tmpdir' = TRUE
    /\ pc' = "output"
    /\ UNCHANGED <<args, status, names, is_train, is_val, listings, archives,
                   synsets_id, validation_ground_truth, outdir, catIdx, inner,
                   images0, images, built, handoffs, loads, resizeVars>>

\* os.makedirs(args.output) and the two label tables
PrepareOutput ==
    /\ status = "running" /\ pc = "output"
    /\ outdir' = outdir \cup {"output", "synsets_id_name.csv", "synsets_id_word.csv"}
    /\ pc' = "train"
    /\ UNCHANGED <<args, status, names, is_train, is_val, listings, archives,
                   synsets_id, validation_ground_truth, tmpdir, catIdx, inner,
                   images0, images, built, handoffs, loads, resizeVars>>

\* if archives['train'] is not None: make the directory, enter the builder
TrainBegin ==
    /\ status = "running" /\ pc = "train"
    /\ IF archives.train.present
       THEN /\ names' = archives.train.names
            /\ outdir' = outdir \cup {"train"}
            /\ pc' = "train_count"
            /\ catIdx' = 1
            /\ inner' = IF Len(archives.train.names) > 0 THEN << <<>> >> ELSE <<>>
       ELSE /\ pc' = "val"
            /\ UNCHANGED <<names, outdir, catIdx, inner>>
    /\ images0' = <<>>
    /\ UNCHANGED <<args, status, is_train, is_val, listings, archives,
                   synsets_id, validation_ground_truth, tmpdir, images, built,
                   handoffs, loads, resizeVars>>

\* one inner member name of the category archive at catIdx
TrainMember ==
    /\ status = "running" /\ pc = "train_count"
    /\ catIdx <= Len(names)
    /\ Len(inner[catIdx]) < MaxInner
    /\ \E mname \in InnerNames \ Range(inner[catIdx]) :
         LET name == names[catIdx]
             category == splitext0(name)
         IN /\ inner' = [inner EXCEPT ![catIdx] = Append(@, mname)]
            /\ IF MatchInner(category, mname)
               THEN /\ images0' = Append(images0,
                                         [y |-> synsets_id[category], name |-> name,
                                          mname |-> mname])
                    /\ status' = "running"
               ELSE /\ status' = "exit"
                    /\ UNCHANGED images0
    /\ UNCHANGED <<args, pc, names, is_train, is_val, listings, archives,
                   synsets_id, validation_ground_truth, tmpdir, outdir, catIdx,
                   images, built, handoffs, loads, resizeVars>>

\* end of one category archive's listing
TrainNextCategory ==
    /\ status = "running" /\ pc = "train_count"
    /\ catIdx <= Len(names)
    /\ catIdx' = catIdx + 1
    /\ inner' = IF catIdx < Len(names) THEN Append(inner, <<>>)
                ELSE inner
    /\ UNCHANGED <<args, pc, status, names, is_train, is_val, listings, archives,
                   synsets_id, validation_ground_truth, tmpdir, outdir,
                   images0, images, built, handoffs, loads, resizeVars>>

\* thinning, then the SimpleDataSource and DataSourceWithFileCache calls
TrainHandoff ==
    /\ status = "running" /\ pc = "train_count"
    /\ catIdx > Len(names)
    /\ images' = Thinning(images0, args.thinning)
    /\ built' = built \cup {"train"}
    /\ handoffs' = handoffs \o store_calls("train", Len(images'),
                                           train_shuffle(args), args)
    /\ pc' = "train_cache"
    /\ UNCHANGED <<args, status, names, is_train, is_val, listings, archives,
                   synsets_id, validation_ground_truth, tmpdir, outdir, catIdx,
                   inner, images0, loads, resizeVars>>

\* the cache store requests every position of the train index, in order, and
\* writes the train cache; the builder returns
TrainCacheBuild ==
    /\ status = "running" /\ pc = "train_cache"
    /\ loads' = loads \o
                [j \in 1..Len(images) |->
                    LET r == load_func_train(images, j - 1, args)
                    IN [role |-> "train", index |-> j - 1, x |-> r.x, y |-> r.y]]
    /\ outdir' = outdir \cup {"train/cache"}
    /\ pc' = "val"
    /\ UNCHANGED <<args, status, names, is_train, is_val, listings, archives,
                   synsets_id, validation_ground_truth, tmpdir, catIdx, inner,
                   images0, images, built, handoffs, resizeVars>>

\* if archives['val'] is not None: make the directory, sort, thin, hand off
ValBegin ==
    /\ status = "running" /\ pc = "val"
    /\ IF archives.val.present
       THEN /\ names' = archives.val.names
            /\ outdir' = outdir \cup {"val"}
            /\ images0' = sorted(names')
            /\ images' = Thinning(images0', args.thinning)
            /\ built' = built \cup {"val"}
            /\ handoffs' = handoffs \o store_calls("val", Len(images'),
                                                   val_shuffle(args), args)
            /\ pc' = "val_cache"
       ELSE /\ pc' = "finish"
            /\ UNCHANGED <<names, outdir, images0, images, built, handoffs>>
    /\ UNCHANGED <<args, status, is_train, is_val, listings, archives,
                   synsets_id, validation_ground_truth, tmpdir, catIdx, inner,
                   loads, resizeVars>>

\* the cache store requests every position of the validation index, in order,
\* up to the first one at which the loader raises, and writes the validation
\* cache if none did; the builder returns
ValCacheBuild ==
    /\ status = "running" /\ pc = "val_cache"
    /\ LET failing == {j \in 1..Len(images) :
                          load_func_val(validation_ground_truth, images,
                                        j - 1, args).raised}
           served == IF failing = {} THEN Len(images)
                     ELSE (CHOOSE j \in failing : \A o \in failing : j <= o) - 1
       IN /\ loads' = loads \o
                      [j \in 1..served |->
                          LET r == load_func_val(validation_ground_truth, images,
                                                 j - 1, args)
                          IN [role |-> "val", index |-> j - 1, x |-> r.x, y |-> r.y]]
          /\ IF failing = {}
             THEN /\ outdir' = outdir \cup {"val/cache"}
                  /\ pc' = "finish"
                  /\ status' = "running"
             ELSE /\ status' = "error"
                  /\ UNCHANGED <<outdir, pc>>
    /\ UNCHANGED <<args, names, is_train, is_val, listings, archives,
                   synsets_id, validation_ground_truth, tmpdir, catIdx, inner,
                   images0, images, built, handoffs, resizeVars>>

\* shutil.rmtree(tmpdir) closing main()
Finish ==
    /\ status = "running" /\ pc = "finish"
    /\ tmpdir' = FALSE
    /\ status' = "done"
    /\ UNCHANGED <<args, pc, names, is_train, is_val, listings, archives,
                   synsets_id, validation_ground_truth, outdir, catIdx, inner,
                   images0, images, built, handoffs, loads, resizeVars>>

\* KeyboardInterrupt inside the try: rmtree, then os.kill(os.getpid(), 9)
InterruptInTry ==
    /\ status = "running" /\ pc \in TryPcs
    /\ tmpdir' = FALSE
    /\ status' = "killed"
    /\ UNCHANGED <<args, pc, names, is_train, is_val, listings, archives,
                   synsets_id, validation_ground_truth, outdir, catIdx, inner,
                   images0, images, built, handoffs, loads, resizeVars>>

\* KeyboardInterrupt anywhere else in main(): no handler catches it
InterruptOutsideTry ==
    /\ status = "running"
    /\ pc \in {"classify", "devkit", "logging", "output", "finish"}
    /\ status' = "interrupted"
    /\ UNCHANGED <<args, pc, names, is_train, is_val, listings, archives,
                   synsets_id, validation_ground_truth, tmpdir, outdir, catIdx,
                   inner, images0, images, built, handoffs, loads,
                   resizeVars>>

Next ==
    \/ ClassifyMember
    \/ ClassifyNextArchive
    \/ ClassifyLastArchive
    \/ ReadDevkit
    \/ PrepareLogging
    \/ PrepareOutput
    \/ TrainBegin
    \/ TrainMember
    \/ TrainNextCategory
    \/ TrainHandoff
    \/ TrainCacheBuild
    \/ ValBegin
    \/ ValCacheBuild
    \/ Finish
    \/ InterruptInTry
    \/ InterruptOutsideTry

Spec == Init /\ [][Next]_vars

\* ------------------------------------------- _resize_image on its own inputs
InitResize ==
    /\ args \in [thinning : {1}, shuffle : {PyNone}, mode : Modes,
                 width : TargetSizes, height : TargetSizes]
    /\ im_h \in ImageSizes
    /\ im_w \in ImageSizes
    /\ resized = NotResized
    /\ pc = "resize"
    /\ status = "running"
    /\ names = <<>>
    /\ is_train = FALSE
    /\ is_val = FALSE
    /\ listings = << <<>> >>
    /\ archives = [train |-> NoArchive, val |-> NoArchive]
    /\ synsets_id = <<>>
    /\ validation_ground_truth = <<>>
    /\ tmpdir = FALSE
    /\ outdir = {}
    /\ catIdx = 0
    /\ inner = <<>>
    /\ images0 = <<>>
    /\ images = <<>>
    /\ built = {}
    /\ handoffs = <<>>
    /\ loads = <<>>

\* _resize_image(im, args.width, args.height, args.mode == 'padding')
ResizeImage ==
    /\ pc = "resize"
    /\ resized' = resize_image(im_h, im_w, args.width, args.height,
                               args.mode = "padding")
    /\ pc' = "resized"
    /\ UNCHANGED <<args, status, names, is_train, is_val, listings, archives,
                   synsets_id, validation_ground_truth, tmpdir, outdir, catIdx,
                   inner, images0, images, built, handoffs, loads,
                   im_h, im_w>>

NextResize == ResizeImage

SpecResize == InitResize /\ [][NextResize]_vars

\* ================================================================== claims

Terminated == status # "running"

\* the temporary directory has been created on the path to this position
TmpdirWasCreated == pc \notin {"classify", "devkit", "logging", "resize", "resized"}

\* C1: with thinning stride k, the validation loader called at final position
\* j returns the image of the (j*k)-th name in byte-wise sorted order together
\* with the label ground_truth[j*k] - 1.
C1_ValidationLabelOfOwnPosition ==
    \A i \in DOMAIN loads :
        (loads[i].role = "val"
            /\ Len(validation_ground_truth) = Len(archives.val.names)) =>
            LET pos == loads[i].index * args.thinning + 1
            IN /\ loads[i].x.src = <<sorted(archives.val.names)[pos]>>
               /\ loads[i].y = validation_ground_truth[pos] - 1

\* C2: trim mode, before resampling: if h/w > H/W exactly target_h =
\* floor(w*H/W) rows are kept, floor((h - target_h)/2) rows dropped from the
\* top and the rest of the excess from the bottom, all columns kept; otherwise
\* exactly target_w = floor(h*W/H) columns are kept in the same way, all rows
\* kept.
C2_TrimKeepsExactlyTarget ==
    (pc = "resized" /\ args.mode = "trimming"
        /\ (im_w # args.width \/ im_h # args.height)) =>
        IF im_h * args.width > args.height * im_w
        THEN LET c2th == (im_w * args.height) \div args.width
                 c2top == (im_h - c2th) \div 2
             IN /\ resized.rows = [start |-> c2top, stop |-> c2top + c2th]
                /\ resized.cols = [start |-> 0, stop |-> im_w]
        ELSE LET c2tw == (im_h * args.width) \div args.height
                 c2left == (im_w - c2tw) \div 2
             IN /\ resized.cols = [start |-> c2left, stop |-> c2left + c2tw]
                /\ resized.rows = [start |-> 0, stop |-> im_h]

\* C3: pad mode, before resampling: both pad amounts are non-negative; if
\* h/w < H/W the grid gets target_h = floor(H*w/W) rows, floor((target_h-h)/2)
\* zero rows on top and the remainder below, otherwise target_w =
\* floor(W*h/H) columns with floor((target_w-w)/2) zero columns on the left
\* and the remainder on the right; the original pixels are all kept, the other
\* dimension and the channels are not padded.
C3_PadReachesExactlyTarget ==
    (pc = "resized" /\ args.mode = "padding"
        /\ (im_w # args.width \/ im_h # args.height)) =>
        /\ ~resized.raised
        /\ \A ax \in 1..3 : resized.pad[ax][1] >= 0 /\ resized.pad[ax][2] >= 0
        /\ resized.rows = [start |-> 0, stop |-> im_h]
        /\ resized.cols = [start |-> 0, stop |-> im_w]
        /\ resized.pad[3] = NoPad
        /\ IF im_h * args.width < args.height * im_w
           THEN LET c3th == (args.height * im_w) \div args.width
                    c3top == (c3th - im_h) \div 2
                IN /\ resized.pad[1] = <<c3top, c3th - im_h - c3top>>
                   /\ resized.pad[2] = NoPad
           ELSE LET c3tw == (args.width * im_h) \div args.height
                    c3left == (c3tw - im_w) \div 2
                IN /\ resized.pad[2] = <<c3left, c3tw - im_w - c3left>>
                   /\ resized.pad[1] = NoPad

\* the ILSVRC2012_ID the devkit gives a category
CategoryId(c) ==
    DevkitSynsets[CHOOSE i \in 1..NumSynsets : DevkitSynsets[i].sname = c].sid

\* the inner members read so far, category by category, in encounter order
RECURSIVE EncounterFrom(_)
EncounterFrom(c) ==
    IF c > Len(inner) THEN <<>>
    ELSE [i \in 1..Len(inner[c]) |->
             [y |-> CategoryId(splitext0(archives.train.names[c])),
              name |-> archives.train.names[c], mname |-> inner[c][i]]]
         \o EncounterFrom(c + 1)

EncounterOrder == EncounterFrom(1)

\* C4: train protocol: the pre-thin sequence lists the inner members in
\* encounter order; for stride k and pre-thin length n the final index holds
\* exactly the entries at pre-thin positions 0, k, 2k, ... below n, in order
\* (all n when k = 1); the loader called at final position j returns the image
\* of pre-thin sample j*k with label (synset id of its category) - 1.
C4_TrainIndexAndLabels ==
    /\ (pc = "train_count" /\ status = "running") => images0 = EncounterOrder
    /\ pc = "train_cache" =>
         /\ images0 = EncounterOrder
         /\ Len(images) = (Len(images0) + args.thinning - 1) \div args.thinning
         /\ \A j \in 0..(Len(images) - 1) :
                images[j + 1] = EncounterOrder[j * args.thinning + 1]
         /\ args.thinning = 1 => images = EncounterOrder
    /\ \A i \in DOMAIN loads :
         loads[i].role = "train" =>
            LET c4e == EncounterOrder[loads[i].index * args.thinning + 1]
            IN /\ loads[i].x.src = <<c4e.name, c4e.mname>>
               /\ loads[i].y = CategoryId(splitext0(c4e.name)) - 1

\* C4 witness: with stride 2 the loader was called at final position 1 and
\* returned the third pre-thin sample, which belongs to the second category.
C4_Witness ==
    /\ args.thinning = 2
    /\ Len(EncounterOrder) = 3
    /\ \E i \in DOMAIN loads :
         /\ loads[i].role = "train"
         /\ loads[i].index = 1
         /\ loads[i].x.src = <<archives.train.names[2], inner[2][1]>>
         /\ loads[i].y # loads[1].y

\* what a listing is by its names alone
RoleOf(listing) ==
    IF listing = <<>> THEN "none"
    ELSE IF \A i \in DOMAIN listing : MatchCategoryArchive(listing[i]) THEN "train"
    ELSE IF \A i \in DOMAIN listing : MatchValidationImage(listing[i]) THEN "val"
    ELSE "bad"

\* the input archives whose check went through
CheckedInputs ==
    IF pc = "classify" THEN 1..(Len(listings) - 1) ELSE 1..Len(listings)

\* C5: classification is fail-fast: a member matching neither pattern, an
\* archive with members of both patterns, or a second archive of a role
\* already held aborts the run during classification, before label
\* resolution, before the output directory exists and before any image is
\* decoded; otherwise at most one archive is recorded as train and at most
\* one as validation, each with its full member list in listing order.
C5_ClassificationFailFast ==
    /\ (pc = "classify" /\ Terminated) =>
         /\ synsets_id = <<>> /\ validation_ground_truth = <<>>
         /\ outdir = {} /\ ~tmpdir /\ loads = <<>>
    /\ (pc = "classify" /\ status = "running") =>
         RoleOf(listings[Len(listings)]) # "bad"
    /\ \A i \in CheckedInputs : RoleOf(listings[i]) # "bad"
    /\ \A i, j \in CheckedInputs :
         (i # j /\ RoleOf(listings[i]) = RoleOf(listings[j])) =>
             RoleOf(listings[i]) = "none"
    /\ archives.train.present <=>
         \E i \in CheckedInputs : RoleOf(listings[i]) = "train"
    /\ archives.val.present <=>
         \E i \in CheckedInputs : RoleOf(listings[i]) = "val"
    /\ \A i \in CheckedInputs :
         /\ RoleOf(listings[i]) = "train" => archives.train.names = listings[i]
         /\ RoleOf(listings[i]) = "val" => archives.val.names = listings[i]

\* C5 witness: a second train archive made the run exit during classification.
C5_Witness ==
    /\ pc = "classify" /\ status = "exit"
    /\ Len(listings) = 2
    /\ RoleOf(listings[1]) = "train"
    /\ RoleOf(listings[2]) = "train"
    /\ archives.train.names = listings[1]

\* C6: a ground-truth list whose length differs from the number of validation
\* members is fatal: no validation cache is handed to the cache store and no
\* loader is invoked with such a list.
C6_GroundTruthLengthChecked ==
    (archives.val.present
        /\ Len(validation_ground_truth) # Len(archives.val.names)) =>
        /\ \A i \in DOMAIN handoffs : handoffs[i].role # "val"
        /\ \A i \in DOMAIN loads : loads[i].role # "val"
        /\ "val/cache" \notin outdir

\* C7: an inner train member that does not match its category's pattern
\* aborts the run and leaves nothing of this run in the destination directory.
C7_InvalidTrainMemberLeavesNoOutput ==
    (pc = "train_count" /\ status = "exit") => outdir = {}

\* C8: index construction for every classified archive has completed before
\* the first loader invocation of any archive.
C8_IndexesBuiltBeforeFirstLoad ==
    loads # <<>> =>
        /\ archives.train.present => "train" \in built
        /\ archives.val.present => "val" \in built

\* C9: on every path by which the run ends after the temporary directory was
\* created, the directory has been removed, and the end on interrupt is not
\* the process killing itself.
C9_TmpdirRemovedOnEveryExit ==
    (Terminated /\ TmpdirWasCreated) => (~tmpdir /\ status # "killed")

\* C10: the shuffle flags handed over for the train cache are on unless the
\* option is 'False'; those handed over for the validation cache are on only
\* if the option is 'True'.
C10_ShuffleFlagHandoff ==
    \A i \in DOMAIN handoffs :
        /\ handoffs[i].role = "train" =>
             (Truthy(handoffs[i].shuffle) <=> args.shuffle # PyStr("False"))
        /\ handoffs[i].role = "val" =>
             (Truthy(handoffs[i].shuffle) <=> args.shuffle = PyStr("True"))

====
